---------------------------- MODULE Spec2Model ----------------------------
(***************************************************************************)
(* appstreamlint: the checks that main() of appstreamlint.go applies to a  *)
(* decoded AppStream MetaInfo document.                                    *)
(*                                                                         *)
(* The state is the decoded Component and the file path (both read-only),  *)
(* the position of main() in its sequence of checks, the lines written to  *)
(* standard output so far, and the way the process ended: os.Exit(1),      *)
(* a normal return (exit status 0) or a Go runtime panic (exit status 2).  *)
(* Go strings are TLA+ strings; s[lo:hi] is Slice(s, lo, hi), which the    *)
(* Go runtime refuses (panics) unless InBounds(s, lo, hi).                 *)
(***************************************************************************)
EXTENDS Integers, Sequences, FiniteSets, TLC

VARIABLES
    filePath,     \* os.Args[1]
    component,    \* the Component that xml.Unmarshal filled in
    pc,           \* the check main() is about to evaluate
    idx,          \* 1-based position of the range loop over Screenshots
    out,          \* the lines printed to standard output, in order
    exitCode,     \* NotExited while running, then the process exit status
    panic,        \* the slice expression that made the runtime panic, or NoPanic
    runs,         \* number of invocations on this input, the current one included
    prev          \* what the previous invocation on this input printed and returned

vars == <<filePath, component, pc, idx, out, exitCode, panic, runs, prev>>

-----------------------------------------------------------------------------
(* Bounds of the model *)

MaxShots == 2
MaxRuns == 2

-----------------------------------------------------------------------------
(* Process outcomes *)

NotExited == -1
ExitOK == 0
ExitError == 1
ExitPanic == 2

NoPanic == "none"
PanicPrefix == "Source[:8]"
PanicActualExtension == "Source[len(Source)-4:]"

NoRun == [out |-> <<>>, exitCode |-> NotExited, panic |-> NoPanic]

-----------------------------------------------------------------------------
(* Go string slicing *)

InBounds(s, lo, hi) == 0 <= lo /\ lo <= hi /\ hi <= Len(s)

Slice(s, lo, hi) == SubSeq(s, lo + 1, hi)

-----------------------------------------------------------------------------
(* The fixed tables of main() *)

allowedLicenses ==
    << "FSFAP", "MIT", "0BSD", "CC0-1.0", "CC-BY-3.0", "CC-BY-4.0",
       "CC-BY-SA-3.0", "CC-BY-SA-4.0", "GFDL-1.1", "GFDL-1.2", "GFDL-1.3",
       "BSL-1.0", "FTL", "FSFUL" >>

validExtensions == << ".png", ".jpg", ".jpeg" >>

\* fmt.Println of a []string: the elements separated by spaces, in brackets.
AllowedLicensesLine ==
    "Allowed licenses: [FSFAP MIT 0BSD CC0-1.0 CC-BY-3.0 CC-BY-4.0 CC-BY-SA-3.0 CC-BY-SA-4.0 GFDL-1.1 GFDL-1.2 GFDL-1.3 BSL-1.0 FTL FSFUL]"

ValidExtensionsLine == "Valid extensions: [.png .jpg .jpeg]"

\* The first line of each diagnostic that main() prints.
ErrFilename == "Error: Filename must be the same as the ID with .appdata.xml extension"

ErrEmpty(field) == "Error: " \o field \o " must not be empty"

ErrType == "Error: Type must be 'desktop-application'"

WarnLicense == "Warning: Metadata license is not allowed"

ErrName == "Error: Name must be at least 2 characters long"

ErrSummary == "Error: Summary must be at least 10 characters long"

ErrLaunchable == "Error: Launchable type must be 'desktop-id'"

WarnNoScreenshots == "Warning: No screenshots tag found"

ErrNoScreenshot == "Error: No screenshot tag found inside screenshots tag"

ErrImageType == "Error: Image type must be 'source' or 'video'"

ErrPrefix == "Error: Image source must start with http:// or https://"

ErrExtension == "Error: Image source must end with a valid image extension"

MsgComplete == "Validation complete."

\* The map literal requiredFields: field name -> value.
requiredFields(c) ==
    [ Type            |-> c.Type,
      ID              |-> c.ID,
      Name            |-> c.Name,
      Summary         |-> c.Summary,
      MetadataLicense |-> c.MetadataLicense,
      ProjectLicense  |-> c.ProjectLicense,
      Description     |-> c.Description,
      LaunchableType  |-> c.Launchable.Type,
      Launchable      |-> c.Launchable.Contents ]


-----------------------------------------------------------------------------
(* The inputs: decoded documents and file paths *)

IDs == { "", "a" }

FilePaths ==
    { ".appdata.xml", ".metainfo.xml", "a.appdata.xml", "a.metainfo.xml", "a.xml" }

Types == { "", "desktop-application", "desktop", "service" }

Names == { "", "x", "ab" }

Summaries == { "", "123456789", "1234567890" }

MetadataLicenses == { "", "MIT", "FSFUL", "GPL-3.0" }

ProjectLicenses == { "", "MIT" }

Descriptions == { "", "d" }

LaunchableTypes == { "", "desktop-id", "url" }

LaunchableContents == { "", "a.desktop" }

\* Sources of every length from 0 to 8, and longer ones with each extension.
ShortSources ==
    { "", "h", "ht", "htt", "http", "http:", "http:/",
      "http://", "https:/", "ftp://x",
      "https://", "ftp://xy" }

LongSources ==
    { "ftp://x.png", "https://example.com/a.png", "https://example.com/a.gif",
      "http://a.jpg", "http://a.jpeg", "http://a.PNG" }

Sources == ShortSources \cup LongSources

OtherSources == { "", "ftp://x", "https://example.com/a.gif" }

Img(t, s) == [Image |-> [Type |-> t, Source |-> s]]

\* Width, Height, Caption and Environment are decoded but never read by main().
Images ==
    { Img("source", s) : s \in Sources }
        \cup { Img(t, s) : t \in { "video", "" }, s \in OtherSources }
        \cup { Img("poster", "https://example.com/a.png") }

ShotLists == UNION { [1..n -> Images] : n \in 0..MaxShots }

FewShotLists ==
    { <<>>, << Img("poster", "https://example.com/a.png") >>,
      << Img("source", "https://example.com/a.png") >> }

Doc(ty, id, nm, su, ml, pl, de, lt, lc, shots) ==
    [ Type            |-> ty,
      ID              |-> id,
      Name            |-> nm,
      Summary         |-> su,
      MetadataLicense |-> ml,
      ProjectLicense  |-> pl,
      Description     |-> de,
      Launchable      |-> [Type |-> lt, Contents |-> lc],
      Screenshots     |-> shots ]

\* Every combination of the scalar fields, with a few screenshot lists.
HeaderDocs ==
    { Doc(ty, id, nm, su, ml, pl, de, lt, lc, shots) :
        ty \in Types, id \in IDs, nm \in Names, su \in Summaries,
        ml \in MetadataLicenses, pl \in ProjectLicenses, de \in Descriptions,
        lt \in LaunchableTypes, lc \in LaunchableContents,
        shots \in FewShotLists }

\* Every screenshot list up to MaxShots, under scalar fields main() lets through.
ScreenshotDocs ==
    { Doc(ty, "a", "ab", "1234567890", ml, "MIT", "d",
          "desktop-id", "a.desktop", shots) :
        ty \in { "desktop-application", "desktop" },
        ml \in { "MIT", "GPL-3.0" }, shots \in ShotLists }

-----------------------------------------------------------------------------
(* State after xml.Unmarshal has succeeded *)

Start ==
    /\ pc = "filename"
    /\ idx = 0
    /\ out = <<>>
    /\ exitCode = NotExited
    /\ panic = NoPanic

Init ==
    /\ \/ filePath \in FilePaths /\ component \in HeaderDocs
       \/ filePath \in { "a.appdata.xml", "a.metainfo.xml" } /\ component \in ScreenshotDocs
    /\ Start
    /\ runs = 1
    /\ prev = NoRun

-----------------------------------------------------------------------------
(* How a check ends *)

\* fmt.Println(lines...) followed by os.Exit(1).
Fail(lines) ==
    /\ out' = out \o lines
    /\ exitCode' = ExitError
    /\ pc' = "done"
    /\ UNCHANGED <<idx, panic>>

\* The check passes (after printing lines, if any) and main() goes on to next.
Pass(lines, next) ==
    /\ out' = out \o lines
    /\ pc' = next
    /\ UNCHANGED <<idx, exitCode, panic>>

\* The Go runtime aborts the process: nothing reaches standard output.
Panic(what) ==
    /\ panic' = what
    /\ exitCode' = ExitPanic
    /\ pc' = "done"
    /\ UNCHANGED <<idx, out>>

-----------------------------------------------------------------------------
(* The conditions main() evaluates *)

\* Faulty variant of FilenameMismatch: an empty ID is refused by the filename check.
FilenameMismatchOrEmptyID(path, id) ==
    id = "" \/ (path # id \o ".appdata.xml" /\ path # id \o ".metainfo.xml")

\* Line 70: the path is neither ID+".appdata.xml" nor ID+".metainfo.xml".
FilenameMismatch(path, id) ==
    path # id \o ".appdata.xml" /\ path # id \o ".metainfo.xml"

\* Lines 92-97: the keys of requiredFields whose value is "".
EmptyFields(c) ==
    { f \in DOMAIN requiredFields(c) : requiredFields(c)[f] = "" }

\* Line 103.
TypeRejected(ty) == ty # "desktop-application" /\ ty # "desktop"

\* Lines 134-140: the loop over allowedLicenses.
allowed(license) ==
    \E k \in 1..Len(allowedLicenses) : license = allowedLicenses[k]

\* Line 183.
ImageTypeRejected(ty) == ty # "source" /\ ty # "video" /\ ty # ""

\* Faulty variant of PrefixCheck: the length test lets short strings through instead
\* of refusing them.
PrefixCheckSkipsShort(s) ==
    IF Len(s) < 7 THEN "ok"
    ELSE IF Slice(s, 0, 7) # "http://"
         THEN IF ~InBounds(s, 0, 8) THEN "panic"
              ELSE IF Slice(s, 0, 8) # "https://" THEN "error" ELSE "ok"
         ELSE "ok"

\* Line 191, evaluated left to right with Go's short-circuit || and &&:
\* "error" when the condition is true, "ok" when it is false, "panic" when
\* Source[:8] is evaluated on a string shorter than 8.
PrefixCheck(s) ==
    IF Len(s) < 7 THEN "error"
    ELSE IF ~InBounds(s, 0, 7) THEN "panic"
    ELSE IF Slice(s, 0, 7) # "http://"
         THEN IF ~InBounds(s, 0, 8) THEN "panic"
              ELSE IF Slice(s, 0, 8) # "https://" THEN "error" ELSE "ok"
         ELSE "ok"

\* Line 199, left operand of &&.
ExtGuard(s, ext) == Len(s) > Len(ext)

UpperCase(ext) ==
    CASE ext = ".png" -> ".PNG"
      [] ext = ".jpg" -> ".JPG"
      [] ext = ".jpeg" -> ".JPEG"
      [] OTHER -> ext

\* Faulty variant of ExtMatches: the comparison ignores case.
ExtMatchesAnyCase(s, ext) ==
    /\ ExtGuard(s, ext)
    /\ Slice(s, Len(s) - Len(ext), Len(s)) \in { ext, UpperCase(ext) }

\* Line 199: the guard, then the comparison of the trailing len(ext) bytes.
ExtMatches(s, ext) ==
    ExtGuard(s, ext) /\ Slice(s, Len(s) - Len(ext), Len(s)) = ext

\* Lines 197-203: the loop over validExtensions.
valid(s) ==
    \E k \in 1..Len(validExtensions) : ExtMatches(s, validExtensions[k])

-----------------------------------------------------------------------------
(* The checks of main(), in program order *)

Shots == component.Screenshots

Shot == Shots[idx].Image

\* Lines 70-77.
CheckFilename ==
    /\ pc = "filename"
    /\ IF FilenameMismatch(filePath, component.ID)
       THEN Fail(<< ErrFilename,
                    "Correct filename: " \o component.ID \o ".metainfo.xml",
                    "Actual filename: " \o filePath >>)
       ELSE Pass(<<>>, "required")
    /\ UNCHANGED <<filePath, component, runs, prev>>

\* Lines 80-97.  The order in which range visits a Go map is unspecified and
\* differs from one execution to the next, so the field that is reported is
\* any of the empty ones.
CheckRequiredFields ==
    /\ pc = "required"
    /\ IF EmptyFields(component) = {}
       THEN Pass(<<>>, "type")
       ELSE \E field \in EmptyFields(component) :
                Fail(<< ErrEmpty(field) >>)
    /\ UNCHANGED <<filePath, component, runs, prev>>

\* Lines 103-106.
CheckType ==
    /\ pc = "type"
    /\ IF TypeRejected(component.Type)
       THEN Fail(<< ErrType >>)
       ELSE Pass(<<>>, "license")
    /\ UNCHANGED <<filePath, component, runs, prev>>

\* Faulty variant of CheckMetadataLicense: a license outside the list is fatal.
CheckMetadataLicenseFatal ==
    /\ pc = "license"
    /\ IF ~allowed(component.MetadataLicense)
       THEN Fail(<< WarnLicense,
                    AllowedLicensesLine,
                    "Actual license: " \o component.MetadataLicense >>)
       ELSE Pass(<<>>, "name")
    /\ UNCHANGED <<filePath, component, runs, prev>>

\* Lines 117-145.
CheckMetadataLicense ==
    /\ pc = "license"
    /\ IF ~allowed(component.MetadataLicense)
       THEN Pass(<< WarnLicense,
                    AllowedLicensesLine,
                    "Actual license: " \o component.MetadataLicense >>, "name")
       ELSE Pass(<<>>, "name")
    /\ UNCHANGED <<filePath, component, runs, prev>>

\* Faulty variant of CheckName: the os.Exit(1) after the message is missing.
CheckNameNoExit ==
    /\ pc = "name"
    /\ IF Len(component.Name) < 2
       THEN Pass(<< ErrName >>, "summary")
       ELSE Pass(<<>>, "summary")
    /\ UNCHANGED <<filePath, component, runs, prev>>

\* Lines 149-152.
CheckName ==
    /\ pc = "name"
    /\ IF Len(component.Name) < 2
       THEN Fail(<< ErrName >>)
       ELSE Pass(<<>>, "summary")
    /\ UNCHANGED <<filePath, component, runs, prev>>

\* Lines 156-159.
CheckSummary ==
    /\ pc = "summary"
    /\ IF Len(component.Summary) < 10
       THEN Fail(<< ErrSummary >>)
       ELSE Pass(<<>>, "launchable")
    /\ UNCHANGED <<filePath, component, runs, prev>>

\* Lines 166-170.
CheckLaunchable ==
    /\ pc = "launchable"
    /\ IF component.Launchable.Type # "desktop-id"
       THEN Fail(<< ErrLaunchable,
                    "Actual launchable type: " \o component.Launchable.Type >>)
       ELSE Pass(<<>>, "screenshots")
    /\ UNCHANGED <<filePath, component, runs, prev>>

\* Faulty variant of CheckScreenshots: an empty screenshot list is an Error.
CheckScreenshotsRequired ==
    /\ pc = "screenshots"
    /\ IF Len(Shots) = 0
       THEN Fail(<< ErrNoScreenshot >>)
       ELSE /\ idx' = 1
            /\ pc' = "imagetype"
            /\ UNCHANGED <<out, exitCode, panic>>
    /\ UNCHANGED <<filePath, component, runs, prev>>

\* Lines 174-182: the warning, the (unreachable) inner test, the loop entry.
CheckScreenshots ==
    /\ pc = "screenshots"
    /\ IF Len(Shots) = 0
       THEN Pass(<< WarnNoScreenshots >>, "complete")
       ELSE IF Len(Shots) = 0
            THEN Fail(<< ErrNoScreenshot >>)
            ELSE /\ idx' = 1
                 /\ pc' = "imagetype"
                 /\ UNCHANGED <<out, exitCode, panic>>
    /\ UNCHANGED <<filePath, component, runs, prev>>

\* Line 182: the range loop moves to the next screenshot or ends.
NextShot ==
    IF idx < Len(Shots)
    THEN idx' = idx + 1 /\ pc' = "imagetype" /\ UNCHANGED <<out, exitCode, panic>>
    ELSE pc' = "complete" /\ UNCHANGED <<idx, out, exitCode, panic>>

\* Lines 183-187.
CheckImageType ==
    /\ pc = "imagetype"
    /\ IF ImageTypeRejected(Shot.Type)
       THEN Fail(<< ErrImageType >>)
       ELSE IF Shot.Type = "source"
            THEN Pass(<<>>, "prefix")
            ELSE NextShot
    /\ UNCHANGED <<filePath, component, runs, prev>>

\* Lines 191-194.
CheckImagePrefix ==
    /\ pc = "prefix"
    /\ CASE PrefixCheck(Shot.Source) = "error" ->
                Fail(<< ErrPrefix >>)
         [] PrefixCheck(Shot.Source) = "panic" -> Panic(PanicPrefix)
         [] OTHER -> Pass(<<>>, "extension")
    /\ UNCHANGED <<filePath, component, runs, prev>>

\* Lines 196-210.
CheckImageExtension ==
    /\ pc = "extension"
    /\ IF valid(Shot.Source)
       THEN NextShot
       ELSE IF InBounds(Shot.Source, Len(Shot.Source) - 4, Len(Shot.Source))
            THEN Fail(<< ErrExtension,
                         ValidExtensionsLine,
                         "Actual extension: "
                            \o Slice(Shot.Source, Len(Shot.Source) - 4, Len(Shot.Source)) >>)
            ELSE /\ out' = out \o << ErrExtension,
                                     ValidExtensionsLine >>
                 /\ panic' = PanicActualExtension
                 /\ exitCode' = ExitPanic
                 /\ pc' = "done"
                 /\ UNCHANGED idx
    /\ UNCHANGED <<filePath, component, runs, prev>>

\* Lines 215-216.
Complete ==
    /\ pc = "complete"
    /\ out' = out \o << MsgComplete >>
    /\ exitCode' = ExitOK
    /\ pc' = "done"
    /\ UNCHANGED <<filePath, component, idx, panic, runs, prev>>

\* The tool is invoked again on the same file.
Rerun ==
    /\ pc = "done"
    /\ runs < MaxRuns
    /\ prev' = [out |-> out, exitCode |-> exitCode, panic |-> panic]
    /\ runs' = runs + 1
    /\ pc' = "filename"
    /\ idx' = 0
    /\ out' = <<>>
    /\ exitCode' = NotExited
    /\ panic' = NoPanic
    /\ UNCHANGED <<filePath, component>>

Next ==
    \/ CheckFilename
    \/ CheckRequiredFields
    \/ CheckType
    \/ CheckMetadataLicense
    \/ CheckName
    \/ CheckSummary
    \/ CheckLaunchable
    \/ CheckScreenshots
    \/ CheckImageType
    \/ CheckImagePrefix
    \/ CheckImageExtension
    \/ Complete

Spec == Init /\ [][Next]_vars

NextRerun == Next \/ Rerun

SpecRerun == Init /\ [][NextRerun]_vars

-----------------------------------------------------------------------------
(* Vocabulary of the properties: findings, verdicts, the mandatory rules *)

StartsWith(s, p) == Len(s) >= Len(p) /\ SubSeq(s, 1, Len(p)) = p

EndsWith(s, p) == Len(s) >= Len(p) /\ SubSeq(s, Len(s) - Len(p) + 1, Len(s)) = p

IsError(line) == StartsWith(line, "Error:")

IsWarning(line) == StartsWith(line, "Warning:")

Errors(o) == { k \in 1..Len(o) : IsError(o[k]) }

Done == pc = "done"

Accepted == Done /\ exitCode = ExitOK /\ Errors(out) = {}

Rejected == Done /\ exitCode = ExitError /\ Cardinality(Errors(out)) = 1

LicenseAllowList ==
    { "FSFAP", "MIT", "0BSD", "CC0-1.0", "CC-BY-3.0", "CC-BY-4.0", "CC-BY-SA-3.0",
      "CC-BY-SA-4.0", "GFDL-1.1", "GFDL-1.2", "GFDL-1.3", "BSL-1.0", "FTL", "FSFUL" }

MandatoryValues ==
    { component.Type, component.ID, component.Name, component.Summary,
      component.MetadataLicense, component.ProjectLicense, component.Description,
      component.Launchable.Type, component.Launchable.Contents }

\* The mandatory rules, by step.
Rule1 == filePath \in { component.ID \o ".appdata.xml", component.ID \o ".metainfo.xml" }

Rule2 == "" \notin MandatoryValues

Rule3 == component.Type \in { "desktop-application", "desktop" }

Rule5 == Len(component.Name) >= 2

Rule6 == Len(component.Summary) >= 10

Rule7 == component.Launchable.Type = "desktop-id"

Rule9a(img) == img.Type \in { "source", "video", "" }

Rule9b(img) ==
    img.Type = "source" =>
        StartsWith(img.Source, "http://") \/ StartsWith(img.Source, "https://")

Rule9c(img) ==
    img.Type = "source" =>
        \E ext \in { ".png", ".jpg", ".jpeg" } : EndsWith(img.Source, ext)

Rule9(img) == Rule9a(img) /\ Rule9b(img) /\ Rule9c(img)

HeaderRulesHold == Rule1 /\ Rule2 /\ Rule3 /\ Rule5 /\ Rule6 /\ Rule7

AllRulesHold ==
    /\ component.ID # ""
    /\ HeaderRulesHold
    /\ \A k \in 1..Len(Shots) : Rule9(Shots[k].Image)

\* The screenshots main() has finished with and let through.
PassedShots ==
    IF pc \in { "imagetype", "prefix", "extension" } THEN 1..(idx - 1)
    ELSE IF Done /\ exitCode # ExitOK /\ idx >= 1 THEN 1..(idx - 1)
    ELSE IF pc = "complete" \/ (Done /\ exitCode = ExitOK) THEN 1..Len(Shots)
    ELSE {}

InLoop == pc \in { "imagetype", "prefix", "extension" }

-----------------------------------------------------------------------------
(* C1 *)

\* C1: for a screenshot whose image kind is "source", the prefix check either
\* passes or ends the run Rejected, whatever the length of the source; the run
\* never ends in a crash raised by the prefix check's substring access.
C1_PrefixCheckNeverCrashes ==
    /\ ~(Done /\ panic = PanicPrefix)
    /\ (Done /\ idx >= 1 /\ Shot.Type = "source" /\ ~Rule9b(Shot)) => Rejected

-----------------------------------------------------------------------------
(* C2 *)

\* C2 as stated: when the id is empty the run is rejected by the filename check,
\* whatever the filename, and the presence check is never reached.
C2_EmptyIdRejectedAtStep1 ==
    component.ID = "" =>
        /\ pc \in { "filename", "done" }
        /\ Done => (Rejected /\ out[1] = ErrFilename)

\* C2 as amended: when the id is empty the run is rejected; by the filename
\* check for every filename other than ".appdata.xml" and ".metainfo.xml", and
\* by the presence check, the next step, for these two filenames.
C2_EmptyIdRejected ==
    component.ID = "" =>
        /\ pc \in { "filename", "required", "done" }
        /\ Done => Rejected
        /\ filePath \notin { ".appdata.xml", ".metainfo.xml" } =>
              /\ pc # "required"
              /\ Done => (out[1] = ErrFilename)
        /\ (filePath \in { ".appdata.xml", ".metainfo.xml" } /\ Done) =>
              /\ Len(out) = 1
              /\ StartsWith(out[1], "Error: ")
              /\ EndsWith(out[1], " must not be empty")

C2_Witness ==
    /\ component.ID = ""
    /\ filePath = ".metainfo.xml"
    /\ Done
    /\ exitCode = ExitError
    /\ out = << ErrEmpty("ID") >>

-----------------------------------------------------------------------------
(* C3 *)

\* C3: two runs on the same document and filename print the same findings in
\* the same order and end with the same verdict; in particular the presence
\* check reports the same field in both.
C3_Deterministic ==
    (runs >= 2 /\ Done) =>
        /\ out = prev.out
        /\ exitCode = prev.exitCode
        /\ panic = prev.panic

-----------------------------------------------------------------------------
(* C4 *)

\* Lines that may follow an Error line: the values printed with it.
IsDetail(line) ==
    \/ StartsWith(line, "Correct filename: ")
    \/ StartsWith(line, "Actual filename: ")
    \/ StartsWith(line, "Actual launchable type: ")
    \/ line = ValidExtensionsLine
    \/ StartsWith(line, "Actual extension: ")

C4_AtMostOneErrorAndItIsLast ==
    /\ Cardinality(Errors(out)) <= 1
    /\ \A k \in Errors(out) :
          /\ Done
          /\ exitCode = ExitError
          /\ \A j \in (k + 1)..Len(out) : IsDetail(out[j])

C4_Step ==
    \* a step is taken only while no Error has been printed
    /\ Errors(out) = {}
    \* a step that prints a Warning goes on to the next check
    /\ (Len(out') > Len(out) /\ IsWarning(out'[Len(out) + 1])) =>
          /\ exitCode' = NotExited
          /\ pc' \in { "name", "complete" }
          /\ Errors(out') = {}

\* C4: at most one Error is printed in a run, it is the last finding, nothing
\* is evaluated after it, and a step that prints a Warning does not end the run.
C4_FatalFast == [] C4_AtMostOneErrorAndItIsLast /\ [][C4_Step]_vars

C4_Witness ==
    /\ Done
    /\ exitCode = ExitError
    /\ Len(out) = 4
    /\ out[1] = WarnLicense
    /\ out[4] = ErrName

-----------------------------------------------------------------------------
(* C5 *)

BadShots == { k \in 1..Len(Shots) : ~Rule9(Shots[k].Image) }

FirstBadShot == Shots[CHOOSE k \in BadShots : \A j \in BadShots : k <= j].Image

IsEmptyFieldError(line) ==
    StartsWith(line, "Error: ") /\ EndsWith(line, " must not be empty")

\* Whether line is the Error of the lowest-numbered violated step.
IsErrorOfFirstViolation(line) ==
    IF ~Rule1 THEN line = ErrFilename
    ELSE IF ~Rule2 THEN IsEmptyFieldError(line)
    ELSE IF ~Rule3 THEN line = ErrType
    ELSE IF ~Rule5 THEN line = ErrName
    ELSE IF ~Rule6 THEN line = ErrSummary
    ELSE IF ~Rule7 THEN line = ErrLaunchable
    ELSE IF BadShots # {}
         THEN IF ~Rule9a(FirstBadShot) THEN line = ErrImageType
              ELSE IF ~Rule9b(FirstBadShot) THEN line = ErrPrefix
              ELSE line = ErrExtension
    ELSE FALSE

\* C5: when mandatory rules are violated, the one Error reported is that of the
\* lowest-numbered violated step (1, 2, 3, 5, 6, 7, then the screenshots in
\* document order, 9a before 9b before 9c within one screenshot).
C5_FirstViolationReported ==
    (Done /\ ~(HeaderRulesHold /\ BadShots = {})) =>
        /\ Cardinality(Errors(out)) = 1
        /\ \A k \in Errors(out) : IsErrorOfFirstViolation(out[k])

-----------------------------------------------------------------------------
(* C6 *)

\* C6: the run ends Accepted with exit code 0 exactly when every mandatory rule
\* holds, and otherwise ends Rejected with a non-zero exit code.
C6_AcceptedIffAllRulesHold ==
    Done => IF AllRulesHold THEN Accepted ELSE Rejected

-----------------------------------------------------------------------------
(* C7 *)

WarningLines(o) == SelectSeq(o, IsWarning)

LicenseMissCase ==
    Done /\ AllRulesHold /\ component.MetadataLicense \notin LicenseAllowList

\* C7 as stated: a document that satisfies every mandatory rule and whose
\* metadata license is outside the allow-list is Accepted with exactly one
\* Warning, the license one.
C7_ExactlyOneWarning ==
    LicenseMissCase =>
        /\ Accepted
        /\ WarningLines(out) = << WarnLicense >>

\* C7 as amended: such a document is Accepted (exit code 0, no Error) with
\* exactly one license Warning, followed by the allow-list and the actual
\* value; it is the only Warning when the document has screenshots, and is
\* followed by the "no screenshots" Warning when it has none.
C7_LicenseMissIsAdvisory ==
    LicenseMissCase =>
        /\ Accepted
        /\ Len(out) >= 3
        /\ SubSeq(out, 1, 3) = << WarnLicense, AllowedLicensesLine,
                                  "Actual license: " \o component.MetadataLicense >>
        /\ WarningLines(out) =
              IF Len(Shots) = 0 THEN << WarnLicense, WarnNoScreenshots >>
                                ELSE << WarnLicense >>

C7_Witness ==
    /\ LicenseMissCase
    /\ Len(Shots) > 0
    /\ exitCode = ExitOK
    /\ WarningLines(out) = << WarnLicense >>

-----------------------------------------------------------------------------
(* C8 *)

\* C8: a document that passes steps 1 to 7 and has no screenshots never enters
\* step 9 and is Accepted with the "no screenshots" Warning and no Error; with
\* a license of the allow-list that Warning is the only one.
C8_NoScreenshotsAccepted ==
    (component.ID # "" /\ HeaderRulesHold /\ Len(Shots) = 0) =>
        /\ ~InLoop
        /\ idx = 0
        /\ Done =>
              /\ Accepted
              /\ out[Len(out) - 1] = WarnNoScreenshots
              /\ out[Len(out)] = MsgComplete
              /\ (component.MetadataLicense \in LicenseAllowList =>
                     WarningLines(out) = << WarnNoScreenshots >>)

C8_Witness ==
    /\ Done
    /\ component.Type = "desktop-application"
    /\ component.MetadataLicense = "MIT"
    /\ Len(Shots) = 0
    /\ exitCode = ExitOK
    /\ out = << WarnNoScreenshots, MsgComplete >>

-----------------------------------------------------------------------------
(* C9 *)

HasValidSuffix(s) == \E ext \in { ".png", ".jpg", ".jpeg" } : EndsWith(s, ext)

C9_State ==
    \* the source is examined only for kind "source"
    /\ pc \in { "prefix", "extension" } => Shot.Type = "source"
    \* a "source" screenshot that was let through ends in one of the three
    \* suffixes, compared byte for byte
    /\ \A k \in PassedShots :
          Shots[k].Image.Type = "source" => HasValidSuffix(Shots[k].Image.Source)
    \* no screenshot of kind "video" or "" is the one a run stopped at
    /\ (Done /\ exitCode # ExitOK /\ idx >= 1) => Shot.Type \notin { "video", "" }
    \* a suffix candidate is compared only where it fits into the string
    /\ \A k \in 1..Len(Shots) : \A e \in 1..Len(validExtensions) :
          ExtGuard(Shots[k].Image.Source, validExtensions[e]) =>
              InBounds(Shots[k].Image.Source,
                       Len(Shots[k].Image.Source) - Len(validExtensions[e]),
                       Len(Shots[k].Image.Source))

C9_Step ==
    \* kind "video" or "": the loop moves on, whatever the source is
    /\ (pc = "imagetype" /\ Shot.Type \in { "video", "" }) =>
          /\ out' = out
          /\ exitCode' = NotExited
          /\ IF idx < Len(Shots) THEN pc' = "imagetype" /\ idx' = idx + 1
                                 ELSE pc' = "complete"
    \* kind "source": the extension check lets through exactly the sources
    \* with one of the three suffixes
    /\ pc = "extension" =>
          IF HasValidSuffix(Shot.Source)
          THEN exitCode' = NotExited /\ out' = out
          ELSE exitCode' = ExitError /\ out'[Len(out) + 1] = ErrExtension

\* C9: the source string is checked only when the image kind is "source"; a
\* screenshot of kind "video" or "" passes whatever its source; for kind
\* "source" the suffix test is case-sensitive, each of the three candidates is
\* compared on its own and never reads before the start of the string.
C9_SourceCheckedOnlyForSource == [] C9_State /\ [][C9_Step]_vars

C9_Witness ==
    /\ Done
    /\ exitCode = ExitError
    /\ idx = 2
    /\ Shots[1].Image = [Type |-> "video", Source |-> "ftp://x"]
    /\ Shots[2].Image = [Type |-> "source", Source |-> "http://a.PNG"]
    /\ out[Len(out)] = "Actual extension: .PNG"

-----------------------------------------------------------------------------
(* C10 *)

ActualExtensionPrinted ==
    \E k \in 1..Len(out) : StartsWith(out[k], "Actual extension: ")

\* C10: whenever the "Actual extension" diagnostic is produced the source has
\* at least 4 characters, the prefix check having refused every shorter one;
\* the slice of the last 4 characters never goes out of bounds.
C10_ActualExtensionInBounds ==
    /\ panic # PanicActualExtension
    /\ pc = "extension" => Len(Shot.Source) >= 4
    /\ ActualExtensionPrinted =>
          /\ Len(Shot.Source) >= 4
          /\ out[Len(out)] =
                "Actual extension: "
                    \o SubSeq(Shot.Source, Len(Shot.Source) - 3, Len(Shot.Source))

C10_Witness ==
    /\ Done
    /\ ActualExtensionPrinted
    /\ Shot.Source = "http://"
    /\ out[Len(out)] = "Actual extension: p://"

=============================================================================
